---- MODULE Spec2Model ----
(***************************************************************************)
(* Path resolution of ipfs/go-path, package resolver (resolver.go).        *)
(*                                                                         *)
(* A call of one of the four public operations is modelled from its entry  *)
(* to its return.  The blocking call into the fetch collaborator           *)
(* (fetcher.BlockMatching / session.NodeMatching) is unfolded into the     *)
(* steps of the selector traversal it drives: LoadLink requests a block,   *)
(* VisitNode visits one node, reports it to the callback when the selector *)
(* matches, and descends along the selector's field of interest.           *)
(***************************************************************************)
EXTENDS Naturals, Sequences, FiniteSets, TLC

\* Longest segment list (after the root) of a path handed to a call.
MaxSegs == 3

\* Field names used in nodes and as path segments.
Names == {"a", "b"}

\* Content identifiers of blocks.
Cids == {"A", "B", "C"}

\* A root token that does not decode to a content identifier.
BadRoot == "bad"

\* cid.Cid{}: the undefined identifier returned beside an error.
Undef == ""

(***************************************************************************)
(* Nodes.  A block holds one root node; a map node holds its children      *)
(* inline (same block) or as links (another block).                        *)
(***************************************************************************)
\* No value: a field a map does not have, a block the store does not have.
Absent == [kind |-> "absent"]

\* A scalar (Kind_String).
Str == [kind |-> "string"]

\* A link value (Kind_Link) that is a cidlink.Link with target c.
Lnk(c) == [kind |-> "link", cidlink |-> TRUE, cid |-> c]

\* A link value whose concrete type is not cidlink.Link.
BadLnk == [kind |-> "link", cidlink |-> FALSE, cid |-> Undef]

\* A map node (Kind_Map) with the fields a and b (Absent: no such field).
Map(x, y) == [kind |-> "map", fields |-> [a |-> x, b |-> y]]

(***************************************************************************)
(* Errors.                                                                 *)
(***************************************************************************)
Err(t) == [type |-> t, name |-> "", node |-> Undef]

NoErr == Err("nil")

\* The error type the package declares for a link that is not found.
ErrNoLink(name, c) == [type |-> "ErrNoLink", name |-> name, node |-> c]

\* ipld.ErrNotExists, the node's own error for a missing key.
ErrNotExists(name) == [type |-> "ErrNotExists", name |-> name, node |-> Undef]

\* parent.LookupByString(name): the value under name, or the node's error.
LookupByString(n, name) ==
  IF n.kind # "map" THEN [err |-> Err("ErrWrongKind"), node |-> Absent]
  ELSE IF n.fields[name] = Absent THEN [err |-> ErrNotExists(name), node |-> Absent]
  ELSE [err |-> NoErr, node |-> n.fields[name]]

(***************************************************************************)
(* Selectors: the plan a path compiles to.                                 *)
(***************************************************************************)
Matcher == [t |-> "Matcher"]

ExploreFields(p, s) == [t |-> "ExploreFields", field |-> p, next |-> s]

ExploreUnion(m, e) == [t |-> "ExploreUnion", members |-> <<m, e>>]

\* No selector (a nil Explore result).
NilSel == [t |-> "nil"]

\* The reduce closure of pathLeafSelector.
leafReduce(p, s) == ExploreFields(p, s)

\* The reduce closure of pathAllSelector.
allReduce(p, s) == ExploreUnion(Matcher, ExploreFields(p, s))

\* The call reduce(p, s) of the closure named reduce.
applyReduce(reduce, p, s) ==
  IF reduce = "all" THEN allReduce(p, s) ELSE leafReduce(p, s)

\* pathSelector: starting from the matcher, fold reduce over the path from
\* its last segment inward.
RECURSIVE pathSelector(_, _)
pathSelector(path, reduce) ==
  IF path = <<>> THEN Matcher
  ELSE applyReduce(reduce, Head(path), pathSelector(Tail(path), reduce))

\* A faulty variant of pathLeafSelector: every node on the way is matched as well.
pathLeafSelector_MatchesAll(path) == pathSelector(path, "all")

pathLeafSelector(path) == pathSelector(path, "leaf")

pathAllSelector(path) == pathSelector(path, "all")

\* Whether the selector reports the node it stands on.
RECURSIVE Decide(_)
Decide(s) ==
  CASE s.t = "Matcher" -> TRUE
    [] s.t = "ExploreFields" -> FALSE
    [] s.t = "ExploreUnion" -> \E i \in 1..Len(s.members) : Decide(s.members[i])
    [] OTHER -> FALSE

\* The fields the selector wants explored, in order.
RECURSIVE Interests(_)
Interests(s) ==
  CASE s.t = "Matcher" -> <<>>
    [] s.t = "ExploreFields" -> <<s.field>>
    [] s.t = "ExploreUnion" -> Interests(s.members[1]) \o Interests(s.members[2])
    [] OTHER -> <<>>

\* The selector for the child under ps, NilSel when ps is not explored.
RECURSIVE Explore(_, _)
Explore(s, ps) ==
  CASE s.t = "ExploreFields" -> IF s.field = ps THEN s.next ELSE NilSel
    [] s.t = "ExploreUnion" ->
         LET e1 == Explore(s.members[1], ps)
             e2 == Explore(s.members[2], ps)
         IN IF e1 = NilSel THEN e2
            ELSE IF e2 = NilSel THEN e1
            ELSE ExploreUnion(e1, e2)
    [] OTHER -> NilSel

(***************************************************************************)
(* Paths.                                                                  *)
(***************************************************************************)
SegLists == UNION {[1..n -> Names] : n \in 0..MaxSegs}

Paths == [root : Cids \cup {BadRoot}, segs : SegLists]

NoPath == [root |-> Undef, segs |-> <<>>]

\* fpath.IsValid(): the path parses, so its root decodes to an identifier.
IsValid(fpath) == IF fpath.root \in Cids THEN NoErr ELSE Err("ErrInvalidPath")

\* path.SplitAbsPath: the root identifier and the segments after it.
SplitAbsPath(fpath) ==
  IF fpath.root \in Cids
  THEN [c |-> fpath.root, p |-> fpath.segs, err |-> NoErr]
  ELSE [c |-> Undef, p |-> <<>>, err |-> Err("ErrInvalidPath")]

(***************************************************************************)
(* The block stores considered.  Links point from A to B and from B to C   *)
(* only: a content-addressed graph has no cycle.                           *)
(***************************************************************************)
RootsA ==
  {Map(x, y) : x \in {Absent, Str, Lnk("B"), BadLnk}
                     \cup {Map(i, Str) : i \in {Absent, Str, Lnk("B")}},
               y \in {Absent, Str}}

RootsB ==
  {Absent} \cup
  {Map(x, Absent) :
     x \in {Absent, Str, Lnk("C"), Map(Str, Absent), Map(Lnk("C"), Absent)}}

RootsC == {Absent, Str}

Stores ==
  {[A |-> ra, B |-> rb, C |-> rc] : ra \in RootsA, rb \in RootsB, rc \in RootsC}
  \cup {[A |-> Absent, B |-> Absent, C |-> Absent]}

(***************************************************************************)
(* State.                                                                  *)
(***************************************************************************)
VARIABLES
  store,     \* the blocks the block service holds: identifier -> root node
  pc,        \* "idle", "walking" (inside the fetch collaborator), "done"
  op,        \* the operation called
  fpath,     \* its path argument
  ndd,       \* ResolveLinks' start node
  session,   \* the call's session context: "none", "open", "cancelled"
  ctxDone,   \* the call's deadline expired or its context was cancelled
  late,      \* a block request made after that was answered all the same
  fetched,   \* identifiers of the blocks requested during the call
  walk,      \* the traversal's position
  nodes,     \* the matches the callback has appended
  blocks,    \* the originating block of each match handed to the callback
  result     \* what the call returned

vars == <<store, pc, op, fpath, ndd, session, ctxDone, late, fetched, walk, nodes, blocks,
          result>>

NoWalk == [st |-> "none"]

WalkLoad(l, s) == [st |-> "load", lnk |-> l, sel |-> s]

WalkVisit(n, s, b) == [st |-> "visit", cur |-> n, sel |-> s, blk |-> b]

WalkEnd(e) == [st |-> "end", err |-> e]

Result(c, rest, nd, nds, e) ==
  [cid |-> c, rest |-> rest, node |-> nd, nodes |-> nds, err |-> e]

NoResult == Result(Undef, <<>>, Absent, <<>>, NoErr)

Init ==
  /\ store \in Stores
  /\ pc = "idle"
  /\ op = "none"
  /\ fpath = NoPath
  /\ ndd = Absent
  /\ session = "none"
  /\ ctxDone = FALSE
  /\ late = FALSE
  /\ fetched = {}
  /\ walk = NoWalk
  /\ nodes = <<>>
  /\ blocks = <<>>
  /\ result = NoResult

\* A call returns e before it reaches the fetch collaborator.
ReturnEarly(o, fp, r) ==
  /\ pc' = "done"
  /\ op' = o
  /\ fpath' = fp
  /\ ndd' = Absent
  /\ session' = "none"
  /\ ctxDone' = FALSE
  /\ late' = FALSE
  /\ fetched' = {}
  /\ walk' = NoWalk
  /\ nodes' = <<>>
  /\ blocks' = <<>>
  /\ result' = r
  /\ UNCHANGED store

\* resolveNodes up to its call of fetcher.BlockMatching: a session under a
\* fresh timeout context, an empty node list, the root link to load.
resolveNodes(o, fp, c, sel) ==
  /\ pc' = "walking"
  /\ op' = o
  /\ fpath' = fp
  /\ ndd' = Absent
  /\ session' = "open"
  /\ ctxDone' = FALSE
  /\ late' = FALSE
  /\ fetched' = {}
  /\ walk' = WalkLoad(Lnk(c), sel)
  /\ nodes' = <<>>
  /\ blocks' = <<>>
  /\ result' = NoResult
  /\ UNCHANGED store

\* A faulty variant of NoSegments: the call never takes the root-only shortcut.
NoSegments_Never(p) == Len(p) < 0

\* len(p) == 0: the path names the root alone.
NoSegments(p) == Len(p) = 0

\* A faulty variant of ParentSegments: the walk covers the last segment too.
ParentSegments_WalksAll(p) == p

\* p[:len(p)-1]: every segment but the last.
ParentSegments(p) == SubSeq(p, 1, Len(p) - 1)

\* ResolveToLastNode, from its entry to the walk over all segments but the last.
ResolveToLastNode ==
  /\ pc = "idle"
  /\ \E fp \in Paths :
       LET sp == SplitAbsPath(fp) IN
       IF sp.err # NoErr
       THEN ReturnEarly("ResolveToLastNode", fp, Result(Undef, <<>>, Absent, <<>>, sp.err))
       ELSE IF NoSegments(sp.p)
       THEN ReturnEarly("ResolveToLastNode", fp, Result(sp.c, <<>>, Absent, <<>>, NoErr))
       ELSE resolveNodes("ResolveToLastNode", fp, sp.c,
                         pathLeafSelector(ParentSegments(sp.p)))

\* ResolvePath, from its entry to the walk over every segment.
ResolvePath ==
  /\ pc = "idle"
  /\ \E fp \in Paths :
       LET sp == SplitAbsPath(fp) IN
       IF IsValid(fp) # NoErr
       THEN ReturnEarly("ResolvePath", fp, Result(Undef, <<>>, Absent, <<>>, IsValid(fp)))
       ELSE IF sp.err # NoErr
       THEN ReturnEarly("ResolvePath", fp, Result(Undef, <<>>, Absent, <<>>, sp.err))
       ELSE resolveNodes("ResolvePath", fp, sp.c, pathLeafSelector(sp.p))

\* ResolvePathComponents, from its entry to the walk that matches every node.
ResolvePathComponents ==
  /\ pc = "idle"
  /\ \E fp \in Paths :
       LET sp == SplitAbsPath(fp) IN
       IF IsValid(fp) # NoErr
       THEN ReturnEarly("ResolvePathComponents", fp,
                        Result(Undef, <<>>, Absent, <<>>, IsValid(fp)))
       ELSE IF sp.err # NoErr
       THEN ReturnEarly("ResolvePathComponents", fp,
                        Result(Undef, <<>>, Absent, <<>>, sp.err))
       ELSE resolveNodes("ResolvePathComponents", fp, sp.c, pathAllSelector(sp.p))

\* The nodes a caller of ResolveLinks can have in hand: the root nodes of
\* the blocks of the store.
StartNodes == {store[c] : c \in {d \in Cids : store[d] # Absent}}

\* ResolveLinks, from its entry to session.NodeMatching: the node list
\* starts as [ndd] and the traversal starts on ndd itself, no block loaded.
ResolveLinks ==
  /\ pc = "idle"
  /\ \E nd \in StartNodes, names \in SegLists :
       /\ pc' = "walking"
       /\ op' = "ResolveLinks"
       /\ fpath' = [root |-> Undef, segs |-> names]
       /\ ndd' = nd
       /\ session' = "open"
       /\ ctxDone' = FALSE
       /\ late' = FALSE
       /\ fetched' = {}
       /\ walk' = WalkVisit(nd, pathAllSelector(names), Undef)
       /\ nodes' = <<nd>>
       /\ blocks' = <<>>
       /\ result' = NoResult
       /\ UNCHANGED store

(***************************************************************************)
(* The fetch collaborator's traversal.                                     *)
(***************************************************************************)
\* The call's deadline expires, or its context is cancelled, during the walk.
Deadline ==
  /\ pc = "walking"
  /\ walk.st # "end"
  /\ ~ctxDone
  /\ ctxDone' = TRUE
  /\ UNCHANGED <<store, pc, op, fpath, ndd, session, late, fetched, walk, nodes, blocks,
               result>>

\* What loading the link l answers when the context is still live: a link
\* that is no cidlink.Link cannot be loaded, a block the store does not hold
\* is not found, else the traversal stands on the block's root node.
LoadOutcome(l, sel) ==
  IF ~l.cidlink THEN WalkEnd(Err("ErrInvalidLink"))
  ELSE IF store[l.cid] = Absent THEN WalkEnd(Err("ErrNotFound"))
  ELSE WalkVisit(store[l.cid], sel, l.cid)

\* The traversal loads the block behind a link.  Once the context is done
\* the block service may answer with the context's error; a block service
\* that holds the block locally may still answer with the block.
LoadLink ==
  /\ pc = "walking"
  /\ walk.st = "load"
  /\ fetched' = IF walk.lnk.cidlink THEN fetched \cup {walk.lnk.cid} ELSE fetched
  /\ \/ /\ walk' = LoadOutcome(walk.lnk, walk.sel)
        /\ late' = (late \/ (ctxDone /\ walk.lnk.cidlink))
     \/ /\ ctxDone
        /\ walk.lnk.cidlink
        /\ walk' = WalkEnd(Err("ErrContextDone"))
        /\ UNCHANGED late
  /\ UNCHANGED <<store, pc, op, fpath, ndd, session, ctxDone, nodes, blocks, result>>

\* Where the traversal stands after visiting node n under selector s in
\* block b: on the child under the selector's field of interest (behind a
\* link to load, or inline), or at its end.  A field the node does not have
\* is skipped without an error.
Descend(n, s, b) ==
  IF n.kind # "map" \/ Interests(s) = <<>> THEN WalkEnd(NoErr)
  ELSE LET ps == Interests(s)[1]
           v == LookupByString(n, ps)
           sNext == Explore(s, ps)
       IN IF v.err # NoErr \/ sNext = NilSel THEN WalkEnd(NoErr)
          ELSE IF v.node.kind = "link" THEN WalkLoad(v.node, sNext)
          ELSE WalkVisit(v.node, sNext, b)

\* The traversal visits a node: the callback appends it when the selector
\* matches it, then the traversal descends.
VisitNode ==
  /\ pc = "walking"
  /\ walk.st = "visit"
  /\ nodes' = IF Decide(walk.sel) THEN Append(nodes, walk.cur) ELSE nodes
  /\ blocks' = IF Decide(walk.sel) THEN Append(blocks, walk.blk) ELSE blocks
  /\ walk' = Descend(walk.cur, walk.sel, walk.blk)
  /\ UNCHANGED <<store, pc, op, fpath, ndd, session, ctxDone, late, fetched, result>>

(***************************************************************************)
(* The calls' returns.                                                     *)
(***************************************************************************)
\* A faulty variant of resolveNodesResult: the nodes matched before the
\* error are returned beside it.
resolveNodesResult_KeepsNodes(err, nds) == [nodes |-> nds, err |-> err]

\* resolveNodes after fetcher.BlockMatching returned: the nodes, or the
\* walk's error and no node.
resolveNodesResult(err, nds) ==
  IF err # NoErr THEN [nodes |-> <<>>, err |-> err]
  ELSE [nodes |-> nds, err |-> NoErr]

\* A faulty variant of Return: the session's context is left live.
Return_NoCancel(r) ==
  /\ pc' = "done"
  /\ walk' = NoWalk
  /\ nodes' = <<>>
  /\ blocks' = <<>>
  /\ result' = r
  /\ UNCHANGED <<store, op, fpath, ndd, session, ctxDone, late, fetched>>

\* The deferred cancel of the session's context runs as the call returns.
Return(r) ==
  /\ pc' = "done"
  /\ session' = "cancelled"
  /\ walk' = NoWalk
  /\ nodes' = <<>>
  /\ blocks' = <<>>
  /\ result' = r
  /\ UNCHANGED <<store, op, fpath, ndd, ctxDone, late, fetched>>

Fail(e) == Result(Undef, <<>>, Absent, <<>>, e)

\* A faulty variant of ResolveToLastNodeResult: the last segment is handed back as a
\* remainder beside the link's target.
ResolveToLastNodeResult_KeepsLast(rn, p) ==
  IF rn.err # NoErr THEN Fail(rn.err)
  ELSE IF Len(rn.nodes) < 1 THEN Fail(Err("ErrNotResolved"))
  ELSE LET parent == rn.nodes[Len(rn.nodes)]
           nd == LookupByString(parent, p[Len(p)])
       IN IF nd.err # NoErr THEN Fail(nd.err)
          ELSE IF nd.node.kind # "link" THEN Fail(Err("ErrNotCidLink"))
          ELSE IF ~nd.node.cidlink THEN Fail(Err("ErrNotCidLink"))
          ELSE Result(nd.node.cid, <<p[Len(p)]>>, Absent, <<>>, NoErr)

\* ResolveToLastNode after the walk: look the last segment up on the parent
\* and return the target of the link found there.
ResolveToLastNodeResult(rn, p) ==
  IF rn.err # NoErr THEN Fail(rn.err)
  ELSE IF Len(rn.nodes) < 1 THEN Fail(Err("ErrNotResolved"))
  ELSE LET parent == rn.nodes[Len(rn.nodes)]
           nd == LookupByString(parent, p[Len(p)])
       IN IF nd.err # NoErr THEN Fail(nd.err)
          ELSE IF nd.node.kind # "link" THEN Fail(Err("ErrNotCidLink"))
          ELSE IF ~nd.node.cidlink THEN Fail(Err("ErrNotCidLink"))
          ELSE Result(nd.node.cid, <<>>, Absent, <<>>, NoErr)

ResolveToLastNodeReturn ==
  /\ pc = "walking"
  /\ op = "ResolveToLastNode"
  /\ walk.st = "end"
  /\ Return(ResolveToLastNodeResult(resolveNodesResult(walk.err, nodes), fpath.segs))

\* ResolvePath after the walk: the last node matched.
ResolvePathResult(rn) ==
  IF rn.err # NoErr THEN Fail(rn.err)
  ELSE IF Len(rn.nodes) < 1 THEN Fail(Err("ErrNotResolved"))
  ELSE Result(Undef, <<>>, rn.nodes[Len(rn.nodes)], <<>>, NoErr)

ResolvePathReturn ==
  /\ pc = "walking"
  /\ op = "ResolvePath"
  /\ walk.st = "end"
  /\ Return(ResolvePathResult(resolveNodesResult(walk.err, nodes)))

\* ResolvePathComponents returns what resolveNodes returns.
ResolvePathComponentsResult(rn) ==
  Result(Undef, <<>>, Absent, rn.nodes, rn.err)

ResolvePathComponentsReturn ==
  /\ pc = "walking"
  /\ op = "ResolvePathComponents"
  /\ walk.st = "end"
  /\ Return(ResolvePathComponentsResult(resolveNodesResult(walk.err, nodes)))

\* ResolveLinks after session.NodeMatching returned.
ResolveLinksResult(err, nds) ==
  IF err # NoErr THEN Fail(err)
  ELSE Result(Undef, <<>>, Absent, nds, NoErr)

ResolveLinksReturn ==
  /\ pc = "walking"
  /\ op = "ResolveLinks"
  /\ walk.st = "end"
  /\ Return(ResolveLinksResult(walk.err, nodes))

Next ==
  \/ ResolveToLastNode
  \/ ResolvePath
  \/ ResolvePathComponents
  \/ ResolveLinks
  \/ Deadline
  \/ LoadLink
  \/ VisitNode
  \/ ResolveToLastNodeReturn
  \/ ResolvePathReturn
  \/ ResolvePathComponentsReturn
  \/ ResolveLinksReturn

Spec == Init /\ [][Next]_vars

\* The collaborator answers every request and the call's own steps run.
FairSpec == Spec /\ WF_vars(Next)

(***************************************************************************)
(* What a path denotes in a store, read off the store alone: the nodes     *)
(* reached after 0, 1, 2, ... segments with the block each lives in, why   *)
(* the following stopped, and the blocks it had to ask for.                *)
(***************************************************************************)
RECURSIVE Follow(_, _, _, _, _, _)
Follow(n, b, segs, i, acc, asked) ==
  IF i > Len(segs) THEN [stop |-> "ok", trail |-> acc, asked |-> asked]
  ELSE IF n.kind # "map" THEN [stop |-> "wrongkind", trail |-> acc, asked |-> asked]
  ELSE LET v == n.fields[segs[i]] IN
    IF v = Absent THEN [stop |-> "absent", trail |-> acc, asked |-> asked]
    ELSE IF v.kind # "link"
    THEN Follow(v, b, segs, i + 1, Append(acc, [node |-> v, blk |-> b]), asked)
    ELSE IF ~v.cidlink THEN [stop |-> "badlink", trail |-> acc, asked |-> asked]
    ELSE IF store[v.cid] = Absent
    THEN [stop |-> "notfound", trail |-> acc, asked |-> asked \cup {v.cid}]
    ELSE Follow(store[v.cid], v.cid, segs, i + 1,
                Append(acc, [node |-> store[v.cid], blk |-> v.cid]),
                asked \cup {v.cid})

FollowFromRoot(c, segs) ==
  IF store[c] = Absent THEN [stop |-> "notfound", trail |-> <<>>, asked |-> {c}]
  ELSE Follow(store[c], c, segs, 1, <<[node |-> store[c], blk |-> c]>>, {c})

\* The call in progress or returned is ResolveToLastNode on a path with a
\* well-formed root and at least one segment.
LastNodeCall ==
  /\ op = "ResolveToLastNode"
  /\ fpath.root \in Cids
  /\ Len(fpath.segs) >= 1

\* Following every segment but the last.
AllButLast(segs) == [i \in 1..(Len(segs) - 1) |-> segs[i]]

ToParent == FollowFromRoot(fpath.root, AllButLast(fpath.segs))

\* The parent of the final value, and the final value.
ParentEntry == ToParent.trail[Len(ToParent.trail)]

LastSeg == fpath.segs[Len(fpath.segs)]

FinalValue ==
  IF ParentEntry.node.kind = "map" THEN ParentEntry.node.fields[LastSeg] ELSE Absent

\* The call returned and no cancellation error cut it short.
Returned == pc = "done" /\ result.err.type # "ErrContextDone"

\* The position in the trail of the root node of the parent's block.
BlockStart ==
  CHOOSE k \in 1..Len(ToParent.trail) :
    /\ ToParent.trail[k].blk = ParentEntry.blk
    /\ \A j \in 1..(k - 1) : ToParent.trail[j].blk # ParentEntry.blk

\* C1: ResolveToLastNode on a path whose final segment resolves to a value
\* that is not a link returns the block holding that value's parent and, as
\* remainder, the segments from the first one resolved inside that block.
C1_NonLinkRemainder ==
  (LastNodeCall /\ Returned /\ ToParent.stop = "ok"
     /\ FinalValue # Absent /\ FinalValue.kind # "link")
  => /\ result.err = NoErr
     /\ result.cid = ParentEntry.blk
     /\ result.rest = SubSeq(fpath.segs, BlockStart, Len(fpath.segs))

\* C2: ResolveToLastNode on a path whose final segment is a content
\* identifier link on the parent returns the link's target and an empty
\* remainder.
C2_LinkTarget ==
  (LastNodeCall /\ Returned /\ ToParent.stop = "ok"
     /\ FinalValue # Absent /\ FinalValue.kind = "link" /\ FinalValue.cidlink)
  => result = Result(FinalValue.cid, <<>>, Absent, <<>>, NoErr)

\* A chain A -a-> B -a-> C resolved to (C, []).
C2_Witness ==
  /\ LastNodeCall /\ pc = "done"
  /\ fpath = [root |-> "A", segs |-> <<"a", "a">>]
  /\ result = Result("C", <<>>, Absent, <<>>, NoErr)
  /\ store["A"].fields["a"] = Lnk("B")
  /\ store["B"].fields["a"] = Lnk("C")

\* C3: ResolveToLastNode requests only the root block and the blocks
\* reached by following all segments but the last; the target of the link
\* under the final segment is not requested, and the call returns it even
\* when the store does not hold it.
C3_NoUnnecessaryFetch ==
  LastNodeCall =>
    /\ fetched \subseteq ToParent.asked
    /\ (ToParent.stop = "ok" /\ FinalValue # Absent /\ FinalValue.kind = "link"
          /\ FinalValue.cidlink)
       => /\ FinalValue.cid \notin fetched
          /\ Returned => result.cid = FinalValue.cid /\ result.err = NoErr

\* The target of the final link returned though the store lacks its block.
C3_Witness ==
  /\ LastNodeCall /\ pc = "done"
  /\ fpath = [root |-> "A", segs |-> <<"a">>]
  /\ store["B"] = Absent
  /\ result = Result("B", <<>>, Absent, <<>>, NoErr)
  /\ fetched = {"A"}

\* C4: ResolveToLastNode looks the final segment up only on the node reached
\* by following every other segment: when one of those is absent the call
\* fails with no identifier, and a call that succeeds returns what the final
\* segment holds on that node.
C4_ParentOnly ==
  (LastNodeCall /\ pc = "done") =>
    /\ ToParent.stop # "ok" => result.err # NoErr /\ result.cid = Undef
    /\ result.err = NoErr =>
         /\ ToParent.stop = "ok"
         /\ FinalValue # Absent
         /\ FinalValue.kind = "link"
         /\ result.cid = FinalValue.cid

\* The first segment is absent while the root itself holds a link under the
\* final segment: the call fails.
C4_Witness ==
  /\ LastNodeCall /\ pc = "done"
  /\ fpath = [root |-> "A", segs |-> <<"b", "a">>]
  /\ store["A"] # Absent
  /\ store["A"].fields["b"] = Absent
  /\ store["A"].fields["a"] = Lnk("B")
  /\ result.err # NoErr
  /\ result.cid = Undef

\* The walk run to its end with the context live: what resolveNodes returns.
RECURSIVE RunWalk(_, _)
RunWalk(w, nds) ==
  IF w.st = "end" THEN resolveNodesResult(w.err, nds)
  ELSE IF w.st = "load" THEN RunWalk(LoadOutcome(w.lnk, w.sel), nds)
  ELSE RunWalk(Descend(w.cur, w.sel, w.blk),
               IF Decide(w.sel) THEN Append(nds, w.cur) ELSE nds)

\* What ResolvePath returns for a path with a well-formed root.
ResolvePathOf(fp) ==
  ResolvePathResult(RunWalk(WalkLoad(Lnk(fp.root), pathLeafSelector(fp.segs)), <<>>))

\* The nodes of a trail.
TrailNodes(f) == [i \in 1..Len(f.trail) |-> f.trail[i].node]

\* Following the whole path.
WholePath == FollowFromRoot(fpath.root, fpath.segs)

\* Following ResolveLinks' names from its start node.
FromStart == Follow(ndd, Undef, fpath.segs, 1, <<[node |-> ndd, blk |-> Undef]>>, {})

PathOps == {"ResolveToLastNode", "ResolvePath", "ResolvePathComponents"}

\* C5: when ResolvePathComponents succeeds its list is not empty, starts
\* with the root node and ends with the node ResolvePath returns for the
\* same path, on which ResolvePath succeeds too.
C5_ComponentsEndInResolvePath ==
  (pc = "done" /\ op = "ResolvePathComponents" /\ result.err = NoErr)
  => /\ Len(result.nodes) >= 1
     /\ result.nodes[1] = store[fpath.root]
     /\ ResolvePathOf(fpath).err = NoErr
     /\ ResolvePathOf(fpath).node = result.nodes[Len(result.nodes)]

\* C6: ResolvePathComponents on a path of n segments returns the n+1 nodes
\* of the path in order, or an error; never a shorter list with no error.
C6_NoPartialSuccess ==
  (pc = "done" /\ op = "ResolvePathComponents" /\ fpath.root \in Cids)
  => \/ result.err # NoErr
     \/ /\ Len(result.nodes) = Len(fpath.segs) + 1
        /\ WholePath.stop = "ok"
        /\ result.nodes = TrailNodes(WholePath)

\* C7: ResolveLinks on success returns the start node followed by the node
\* reached after each name, each once: len(names)+1 nodes.
C7_LinksPathOnce ==
  (pc = "done" /\ op = "ResolveLinks" /\ result.err = NoErr)
  => /\ Len(result.nodes) = Len(fpath.segs) + 1
     /\ result.nodes[1] = ndd
     /\ FromStart.stop = "ok"
     /\ result.nodes = TrailNodes(FromStart)

\* C8: a lookup that finds no field under a segment, at any hop of any
\* operation, fails the call with ErrNoLink naming the segment and the
\* identifier of the parent the lookup was made on.
C8_NoLinkError ==
  /\ (Returned /\ op \in PathOps /\ fpath.root \in Cids /\ WholePath.stop = "absent")
     => result.err = ErrNoLink(fpath.segs[Len(WholePath.trail)],
                               WholePath.trail[Len(WholePath.trail)].blk)
  /\ (Returned /\ op = "ResolveLinks" /\ FromStart.stop = "absent")
     => /\ result.err.type = "ErrNoLink"
        /\ result.err.name = fpath.segs[Len(FromStart.trail)]

\* C9: ResolveToLastNode on a path with no segment after the root returns
\* the root identifier and an empty remainder with no error, opens no
\* session and requests no block.
C9_RootOnly ==
  (op = "ResolveToLastNode" /\ fpath.root \in Cids /\ Len(fpath.segs) = 0)
  => /\ pc = "done"
     /\ result = Result(fpath.root, <<>>, Absent, <<>>, NoErr)
     /\ session = "none"
     /\ fetched = {}

\* The root identifier returned though the store does not hold its block.
C9_Witness ==
  /\ op = "ResolveToLastNode" /\ pc = "done"
  /\ fpath = [root |-> "A", segs |-> <<>>]
  /\ store["A"] = Absent
  /\ result = Result("A", <<>>, Absent, <<>>, NoErr)
  /\ fetched = {}

SameBlockRun(bs) ==
  LET n == Len(bs)
      first == CHOOSE k \in 1..n :
                 /\ \A j \in k..n : bs[j] = bs[n]
                 /\ k > 1 => bs[k - 1] # bs[n]
  IN n - first

\* C11: after any non-empty prefix of the match stream, resolveNodes holds
\* lastBlockId, the originating block of the most recent match, and depth,
\* the number of matches immediately before it from the same block (0 for
\* the first match and after a change of block).
C11_BlockBoundary ==
  (pc = "walking" /\ op \in PathOps /\ Len(blocks) >= 1)
  => LET rn == resolveNodesResult(NoErr, nodes)
     IN /\ "lastBlockId" \in DOMAIN rn
        /\ "depth" \in DOMAIN rn
        /\ rn.lastBlockId = blocks[Len(blocks)]
        /\ rn.depth = SameBlockRun(blocks)

C12_WitnessAbsent ==
  /\ op = "ResolvePath" /\ pc = "done"
  /\ fpath = [root |-> "A", segs |-> <<"a", "b">>]
  /\ result = Fail(Err("ErrNotResolved"))
  /\ WholePath.stop = "absent"
  /\ Len(WholePath.trail) = 2

\* C13: when the fetch collaborator reports an error at any point of a
\* walk, also after matches were delivered, each of the four operations
\* returns that error unchanged with an empty result: no node matched
\* before the error reaches the caller.
C13_AtomicFailure ==
  [][(pc = "walking" /\ walk.st = "end" /\ walk.err # NoErr /\ pc' = "done")
       => result' = Fail(walk.err)]_vars

\* ResolvePathComponents had matched the root of A when the block behind
\* the first segment was not found: it returned the error and no node.
C13_Witness ==
  /\ op = "ResolvePathComponents" /\ pc = "done"
  /\ fpath = [root |-> "A", segs |-> <<"a">>]
  /\ fetched = {"A", "B"}
  /\ store["B"] = Absent
  /\ result = Fail(Err("ErrNotFound"))
====
